---- MODULE Spec2Model ----
(***************************************************************************)
(* LoadTester (src/main.go, lines 1-291): the worker-pool load generator.  *)
(* main runs RepeatCount times runLoad; runLoad starts Concurrency         *)
(* workers that read request ids from the jobs channel, a producer that    *)
(* fills and closes it, and a collector that drains the results channel    *)
(* into the CSV report, the counters and the latency buffer.               *)
(*                                                                         *)
(* src/main.go, lines 293-520, holds a second load generator: its runLoad  *)
(* starts one goroutine per request behind a semaphore, paces the starts   *)
(* with a ticker, and collects the results itself (specification SpecB).   *)
(***************************************************************************)
EXTENDS Integers, Sequences, FiniteSets, TLC

\* ------------------------------------------------------------- bounds
MaxRequests == 2
MaxConcurrency == 2
MaxMaxRetries == 1
MaxRepeatCount == 2
MaxAttemptMs == 1
MaxLiveTasks == 2
MaxSampleLen == 4
MaxSampleMs == 3

\* ------------------------------------------------------- input domains
\* HTTP status codes a response may carry (one below 400, one at 400).
StatusCodes == {200, 400}

\* What one attempt can meet: a transport error of client.Do, or a response.
Responses == {[kind |-> "transport", status |-> 0]}
             \cup {[kind |-> "response", status |-> s] : s \in StatusCodes}

\* Config as loadConfig returns it, over the bounded input domain.  URLValid
\* stands for http.NewRequest accepting cfg.URL (it fails on every attempt
\* or on none).
Configs ==
    [Requests : 0..MaxRequests,
     Concurrency : 1..MaxConcurrency,
     MaxRetries : 0..MaxMaxRetries,
     RepeatCount : 1..MaxRepeatCount,
     Burst : BOOLEAN,
     Interval : {0, 10},
     URLValid : BOOLEAN]

VARIABLES
    cfg,            \* Config (immutable after Init)
    run,            \* main's loop variable
    mpc,            \* main's position
    pauses,         \* number of RepeatDelay sleeps main has taken
    nextJob,        \* the producer goroutine's loop variable i
    jobs,           \* the jobs channel's buffer
    jobsClosed,     \* close(jobs) has happened
    results,        \* the results channel's buffer
    resultsClosed,  \* close(results) has happened
    wk,             \* worker goroutines: position and locals
    cpc,            \* the collector goroutine's position
    totalFailed, totalSucceeded, allLatencies,   \* main's shared totals
    csv,            \* rows written to the report, in order
    report,         \* "Run N completed" lines printed, in order
    final,          \* the FINAL SUMMARY values, once printed
    \* history of the current run (reset when a run starts)
    recvOrder,      \* request ids in the order workers received them
    beginOrder,     \* request ids in the order their attempt loop began
    tries,          \* per request id: the outcomes of its attempts, in order
    emitted,        \* Results in the order workers sent them
    naps,           \* pacing sleeps completed in this run
    beginNaps,      \* per request id: naps when its attempt loop began
    \* the semaphore-and-ticker runLoad (src/main.go 383-462)
    nextID,         \* the dispatch loop's variable i
    sem,            \* tokens held in the sem channel
    ticker,         \* "none", "armed", or "tick" (a tick waits in ticker.C)
    task,           \* per request id: the send goroutine's position, its Result
    closer,         \* the goroutine that waits on wg and closes results
    success, fail, latencies, batch   \* runLoad's locals

vars == <<cfg, run, mpc, pauses, nextJob, jobs, jobsClosed, results,
          resultsClosed, wk, cpc, totalFailed, totalSucceeded, allLatencies,
          csv, report, final, recvOrder, beginOrder, tries, emitted, naps,
          beginNaps, nextID, sem, ticker, task, closer, success, fail,
          latencies, batch>>

mainVars == <<run, mpc, pauses, report, final>>
chanVars == <<nextJob, jobs, jobsClosed>>
totalVars == <<totalFailed, totalSucceeded, allLatencies, csv>>
histVars == <<recvOrder, beginOrder, tries, emitted, naps, beginNaps>>
dispatchVars == <<nextID, sem, ticker, task, closer, success, fail, latencies,
                  batch>>
poolVars == <<nextJob, jobs, jobsClosed, wk, cpc, totalSucceeded,
              allLatencies, recvOrder, beginOrder, tries, naps, beginNaps>>

\* ------------------------------------------------------------ helpers
\* The zero value of Result (var r Result).
ZeroResult == [RequestID |-> 0, Status |-> 0, Error |-> "", Duration |-> 0]

\* err.Error() of a failed http.NewRequest / client.Do.
NewRequestError == "parse error"
TransportError == "transport error"

\* fmt.Sprintf("HTTP %d: %s", status, body)
HTTPErrorText(status) ==
    IF status = 400 THEN "HTTP 400: body" ELSE "HTTP 4xx/5xx: body"

\* errStr of a received response.
ErrStrAbove400(status) == IF status > 400 THEN HTTPErrorText(status) ELSE ""

ErrStr(status) == IF status >= 400 THEN HTTPErrorText(status) ELSE ""

\* The Result one pass of the attempt loop stores in r.
AttemptResult(reqID, resp, duration) ==
    IF ~cfg.URLValid
    THEN [RequestID |-> reqID, Status |-> 0, Error |-> NewRequestError,
          Duration |-> duration]
    ELSE IF resp.kind = "transport"
    THEN [RequestID |-> reqID, Status |-> 0, Error |-> TransportError,
          Duration |-> duration]
    ELSE [RequestID |-> reqID, Status |-> resp.status,
          Error |-> ErrStr(resp.status), Duration |-> duration]

\* What the attempt really met: a response with a status below 400 (the
\* classification of the attempt, independent of what the worker stores).
AttemptOk(resp) == cfg.URLValid /\ resp.kind = "response" /\ resp.status < 400

\* The pass leaves the loop by break: only the response path can, and only
\* with an empty Error.
NeverBreaks(r) == FALSE

BreaksLoop(r) == cfg.URLValid /\ r.Status # 0 /\ r.Error = ""

\* The loop condition attempt <= cfg.MaxRetries.
LoopCond(attempt) == attempt <= cfg.MaxRetries

\* The workers runLoad starts: for w := 0; w < cfg.Concurrency; w++.
WorkerIdsOneMore == 1..(cfg.Concurrency + 1)

WorkerIds == 1..cfg.Concurrency

\* The worker sleeps after sending: !cfg.Burst && cfg.Interval > 0.
Paces == ~cfg.Burst /\ cfg.Interval > 0

\* The upper limit of the producer's loop: for i := 1; i <= cfg.Requests; i++.
LastJobShort == cfg.Requests - 1

LastJob == cfg.Requests

\* The value the producer sends in pass i of its loop: jobs <- i.
JobForDescending(i) == cfg.Requests + 1 - i

JobFor(i) == i

\* The row the collector writes for a Result.
CsvRow(r) == <<run, r.RequestID, r.Status, r.Error, r.Duration>>

\* sort.Slice(s, less) with less = (<).  Position(s, k) is the place entry
\* k of s takes in the sorted slice: after every entry below it and after
\* the equal entries that precede it.
PositionDescending(s, k) ==
    Cardinality({j \in 1..Len(s) : s[j] > s[k] \/ (s[j] = s[k] /\ j <= k)})

Position(s, k) ==
    Cardinality({j \in 1..Len(s) : s[j] < s[k] \/ (s[j] = s[k] /\ j <= k)})

Sorted(s) ==
    [i \in 1..Len(s) |-> s[CHOOSE k \in 1..Len(s) : Position(s, k) = i]]

\* int(float64(n) * num/den) for the fractions 0.9 and 0.99, and n/2.
PctIndex(n, num, den) == (n * num) \div den

\* The element the code picks from a non-empty sorted sample (0-based index).
Pct(sorted, num, den) == sorted[PctIndex(Len(sorted), num, den) + 1]

IdleWorker == [pc |-> "recv", reqID |-> 0, attempt |-> 0, r |-> ZeroResult,
               elapsed |-> 0]

NoFinal == [printed |-> FALSE]

\* The semaphore-and-ticker runLoad has not been called.
NoDispatch ==
    /\ nextID = 1
    /\ sem = 0
    /\ ticker = "none"
    /\ task = <<>>
    /\ closer = "none"
    /\ success = 0
    /\ fail = 0
    /\ latencies = <<>>
    /\ batch = <<>>

\* --------------------------------------------------------------- Init
Init ==
    /\ cfg \in Configs
    /\ run = 1
    /\ mpc = "call"
    /\ pauses = 0
    /\ nextJob = 1
    /\ jobs = <<>>
    /\ jobsClosed = FALSE
    /\ results = <<>>
    /\ resultsClosed = FALSE
    /\ wk = [w \in WorkerIds |-> [IdleWorker EXCEPT !.pc = "none"]]
    /\ cpc = "none"
    /\ totalFailed = 0
    /\ totalSucceeded = 0
    /\ allLatencies = <<>>
    /\ csv = <<>>
    /\ report = <<>>
    /\ final = NoFinal
    /\ recvOrder = <<>>
    /\ beginOrder = <<>>
    /\ tries = [i \in 1..cfg.Requests |-> <<>>]
    /\ emitted = <<>>
    /\ naps = 0
    /\ beginNaps = [i \in 1..cfg.Requests |-> 0]
    /\ NoDispatch

\* ------------------------------------------------------------ runLoad
\* main calls runLoad (run <= cfg.RepeatCount): the channels are made, the
\* workers, the producer and the collector are started.
StartRun ==
    /\ mpc = "call"
    /\ run <= cfg.RepeatCount
    /\ mpc' = "wait"
    /\ nextJob' = 1
    /\ jobs' = <<>>
    /\ jobsClosed' = FALSE
    /\ results' = <<>>
    /\ resultsClosed' = FALSE
    /\ wk' = [w \in WorkerIds |-> IdleWorker]
    /\ cpc' = "run"
    /\ recvOrder' = <<>>
    /\ beginOrder' = <<>>
    /\ tries' = [i \in 1..cfg.Requests |-> <<>>]
    /\ emitted' = <<>>
    /\ naps' = 0
    /\ beginNaps' = [i \in 1..cfg.Requests |-> 0]
    /\ UNCHANGED <<cfg, dispatchVars, run, pauses, report, final, totalVars>>

\* The producer goroutine: jobs <- i (the buffer holds cfg.Requests).
Produce ==
    /\ mpc = "wait"
    /\ ~jobsClosed
    /\ nextJob <= LastJob
    /\ Len(jobs) < cfg.Requests
    /\ jobs' = Append(jobs, JobFor(nextJob))
    /\ nextJob' = nextJob + 1
    /\ UNCHANGED <<cfg, dispatchVars, mainVars, jobsClosed, results, resultsClosed, wk, cpc,
                   totalVars, histVars>>

\* The producer goroutine: close(jobs) after its loop.
CloseJobsForgotten == FALSE /\ UNCHANGED vars

CloseJobs ==
    /\ mpc = "wait"
    /\ ~jobsClosed
    /\ nextJob > LastJob
    /\ jobsClosed' = TRUE
    /\ UNCHANGED <<cfg, dispatchVars, mainVars, nextJob, jobs, results, resultsClosed, wk,
                   cpc, totalVars, histVars>>

\* ------------------------------------------------------------- worker
\* for reqID := range jobs: a job is received.
Recv(w) ==
    /\ wk[w].pc = "recv"
    /\ jobs # <<>>
    /\ jobs' = Tail(jobs)
    /\ wk' = [wk EXCEPT ![w] = [IdleWorker EXCEPT !.pc = "begin",
                                                  !.reqID = Head(jobs)]]
    /\ recvOrder' = Append(recvOrder, Head(jobs))
    /\ UNCHANGED <<cfg, dispatchVars, mainVars, nextJob, jobsClosed, results, resultsClosed,
                   cpc, totalVars, beginOrder, tries, emitted, naps, beginNaps>>

\* for reqID := range jobs: the channel is closed and empty; wg.Done().
WorkerExit(w) ==
    /\ wk[w].pc = "recv"
    /\ jobs = <<>>
    /\ jobsClosed
    /\ wk' = [wk EXCEPT ![w].pc = "exit"]
    /\ UNCHANGED <<cfg, dispatchVars, mainVars, chanVars, results, resultsClosed, cpc,
                   totalVars, histVars>>

\* var r Result; start := time.Now(); attempt := 0 and the first loop test.
Begin(w) ==
    /\ wk[w].pc = "begin"
    /\ wk' = [wk EXCEPT ![w].pc = IF LoopCond(0) THEN "attempt" ELSE "send"]
    /\ beginOrder' = Append(beginOrder, wk[w].reqID)
    /\ beginNaps' = [beginNaps EXCEPT ![wk[w].reqID] = naps]
    /\ UNCHANGED <<cfg, dispatchVars, mainVars, chanVars, results, resultsClosed, cpc,
                   totalVars, recvOrder, tries, emitted, naps>>

\* One pass of the attempt loop, which meets `resp` after `d` more ms, up to
\* its break or continue and the next loop test.
Attempt(w, resp, d) ==
    /\ wk[w].pc = "attempt"
    /\ LET me == wk[w]
           dur == me.elapsed + d
           r == AttemptResult(me.reqID, resp, dur)
           brk == BreaksLoop(r)
           nxt == me.attempt + 1
       IN /\ wk' = [wk EXCEPT ![w] =
                      [pc |-> IF brk \/ ~LoopCond(nxt) THEN "send"
                              ELSE "attempt",
                       reqID |-> me.reqID,
                       attempt |-> IF brk THEN me.attempt ELSE nxt,
                       r |-> r,
                       elapsed |-> dur]]
          /\ tries' = [tries EXCEPT ![me.reqID] = Append(@, AttemptOk(resp))]
    /\ UNCHANGED <<cfg, dispatchVars, mainVars, chanVars, results, resultsClosed, cpc,
                   totalVars, recvOrder, beginOrder, emitted, naps, beginNaps>>

\* results <- r, then the pacing test.
SendAndCount(w) ==
    /\ wk[w].pc = "send"
    /\ ~resultsClosed
    /\ Len(results) < cfg.Requests
    /\ results' = Append(results, wk[w].r)
    /\ emitted' = Append(emitted, wk[w].r)
    /\ totalFailed' = IF wk[w].r.Error # "" THEN totalFailed + 1
                      ELSE totalFailed
    /\ wk' = [wk EXCEPT ![w].pc = IF Paces THEN "sleep" ELSE "recv"]
    /\ UNCHANGED <<cfg, dispatchVars, mainVars, chanVars, resultsClosed, cpc,
                   totalSucceeded, allLatencies, csv,
                   recvOrder, beginOrder, tries, naps, beginNaps>>

Send(w) ==
    /\ wk[w].pc = "send"
    /\ ~resultsClosed
    /\ Len(results) < cfg.Requests
    /\ results' = Append(results, wk[w].r)
    /\ emitted' = Append(emitted, wk[w].r)
    /\ wk' = [wk EXCEPT ![w].pc = IF Paces THEN "sleep" ELSE "recv"]
    /\ UNCHANGED <<cfg, dispatchVars, mainVars, chanVars, resultsClosed, cpc, totalVars,
                   recvOrder, beginOrder, tries, naps, beginNaps>>

\* time.Sleep(Interval/Requests) returns.
Wake(w) ==
    /\ wk[w].pc = "sleep"
    /\ wk' = [wk EXCEPT ![w].pc = "recv"]
    /\ naps' = naps + 1
    /\ UNCHANGED <<cfg, dispatchVars, mainVars, chanVars, results, resultsClosed, cpc,
                   totalVars, recvOrder, beginOrder, tries, emitted, beginNaps>>

\* ---------------------------------------------------------- collector
\* for r := range results: one Result is written, counted and sampled.
CollectCountsFailuresOnly ==
    /\ cpc = "run"
    /\ results # <<>>
    /\ LET r == Head(results)
       IN /\ csv' = Append(csv, CsvRow(r))
          /\ totalFailed' = IF r.Error # "" THEN totalFailed + 1
                            ELSE totalFailed
          /\ allLatencies' = Append(allLatencies, r.Duration)
    /\ results' = Tail(results)
    /\ UNCHANGED <<cfg, dispatchVars, mainVars, chanVars, resultsClosed, wk, cpc, histVars,
                   totalSucceeded>>

CollectWritesFailuresOnly ==
    /\ cpc = "run"
    /\ results # <<>>
    /\ LET r == Head(results)
       IN /\ csv' = IF r.Error # "" THEN Append(csv, CsvRow(r)) ELSE csv
          /\ totalFailed' = IF r.Error # "" THEN totalFailed + 1
                            ELSE totalFailed
          /\ totalSucceeded' = IF r.Error # "" THEN totalSucceeded
                               ELSE totalSucceeded + 1
          /\ allLatencies' = Append(allLatencies, r.Duration)
    /\ results' = Tail(results)
    /\ UNCHANGED <<cfg, dispatchVars, mainVars, chanVars, resultsClosed, wk, cpc, histVars>>

Collect ==
    /\ cpc = "run"
    /\ results # <<>>
    /\ LET r == Head(results)
       IN /\ csv' = Append(csv, CsvRow(r))
          /\ totalFailed' = IF r.Error # "" THEN totalFailed + 1
                            ELSE totalFailed
          /\ totalSucceeded' = IF r.Error # "" THEN totalSucceeded
                               ELSE totalSucceeded + 1
          /\ allLatencies' = Append(allLatencies, r.Duration)
    /\ results' = Tail(results)
    /\ UNCHANGED <<cfg, dispatchVars, mainVars, chanVars, resultsClosed, wk, cpc, histVars>>

\* for r := range results ends: closed and empty; collectorWg.Done().
CollectorExit ==
    /\ cpc = "run"
    /\ results = <<>>
    /\ resultsClosed
    /\ cpc' = "done"
    /\ UNCHANGED <<cfg, dispatchVars, mainVars, chanVars, results, resultsClosed, wk,
                   totalVars, histVars>>

\* --------------------------------------------------------------- main
\* wg.Wait() returns (every worker has called wg.Done()); close(results).
CloseResultsEarly ==
    /\ mpc = "wait"
    /\ resultsClosed' = TRUE
    /\ mpc' = "collect"
    /\ UNCHANGED <<cfg, dispatchVars, run, pauses, report, final, chanVars, results, wk,
                   cpc, totalVars, histVars>>

CloseResults ==
    /\ mpc = "wait"
    /\ \A w \in WorkerIds : wk[w].pc = "exit"
    /\ resultsClosed' = TRUE
    /\ mpc' = "collect"
    /\ UNCHANGED <<cfg, dispatchVars, run, pauses, report, final, chanVars, results, wk,
                   cpc, totalVars, histVars>>

\* The "Run N completed" line runLoad prints when the sample is not empty.
RunLine ==
    LET sorted == Sorted(allLatencies)
    IN [run |-> run, requests |-> cfg.Requests,
        success |-> totalSucceeded, failed |-> totalFailed,
        n |-> Len(sorted),
        p50 |-> sorted[Len(sorted) \div 2 + 1],
        p90 |-> Pct(sorted, 9, 10),
        p99 |-> Pct(sorted, 99, 100)]

\* The test main makes after a run: if run < cfg.RepeatCount, sleep.
PauseAfterEvery(k) == k <= cfg.RepeatCount

PauseAfter(k) == k < cfg.RepeatCount

\* collectorWg.Wait() returns; the per-run latency is computed and printed;
\* runLoad returns to main, which tests run < cfg.RepeatCount.
FinishRunEarly ==
    /\ mpc = "collect"
    /\ report' = IF Len(allLatencies) > 0 THEN Append(report, RunLine)
                 ELSE report
    /\ mpc' = IF PauseAfter(run) THEN "pause" ELSE "next"
    /\ UNCHANGED <<cfg, dispatchVars, run, pauses, final, chanVars, results, resultsClosed,
                   wk, cpc, totalVars, histVars>>

FinishRun ==
    /\ mpc = "collect"
    /\ cpc = "done"
    /\ report' = IF Len(allLatencies) > 0 THEN Append(report, RunLine)
                 ELSE report
    /\ mpc' = IF PauseAfter(run) THEN "pause" ELSE "next"
    /\ UNCHANGED <<cfg, dispatchVars, run, pauses, final, chanVars, results, resultsClosed,
                   wk, cpc, totalVars, histVars>>

\* time.Sleep(RepeatDelay) returns.
Pause ==
    /\ mpc = "pause"
    /\ pauses' = pauses + 1
    /\ mpc' = "next"
    /\ UNCHANGED <<cfg, dispatchVars, run, report, final, chanVars, results, resultsClosed,
                   wk, cpc, totalVars, histVars>>

\* run++ and the loop test run <= cfg.RepeatCount.
NextRun ==
    /\ mpc = "next"
    /\ run' = run + 1
    /\ mpc' = IF run + 1 <= cfg.RepeatCount THEN "call" ELSE "summary"
    /\ UNCHANGED <<cfg, dispatchVars, pauses, report, final, chanVars, results,
                   resultsClosed, wk, cpc, totalVars, histVars>>

\* The FINAL SUMMARY: allLatencies is sorted in place, the totals printed.
Summary ==
    /\ mpc = "summary"
    /\ LET sorted == Sorted(allLatencies)
           n == Len(sorted)
       IN /\ allLatencies' = sorted
          /\ final' = [printed |-> TRUE,
                       totalRequests |-> cfg.Requests * cfg.RepeatCount,
                       succeeded |-> totalSucceeded,
                       failed |-> totalFailed,
                       p50 |-> IF n > 0 THEN sorted[n \div 2 + 1] ELSE 0,
                       p90 |-> IF n > 0 THEN Pct(sorted, 9, 10) ELSE 0,
                       p99 |-> IF n > 0 THEN Pct(sorted, 99, 100) ELSE 0]
    /\ mpc' = "done"
    /\ UNCHANGED <<cfg, dispatchVars, run, pauses, report, chanVars, results, resultsClosed,
                   wk, cpc, totalFailed, totalSucceeded, csv, histVars>>

WorkerStep ==
    \E w \in WorkerIds :
        \/ Recv(w)
        \/ WorkerExit(w)
        \/ Begin(w)
        \/ \E resp \in Responses, d \in 1..MaxAttemptMs : Attempt(w, resp, d)
        \/ Send(w)
        \/ Wake(w)

Next ==
    \/ StartRun
    \/ Produce
    \/ CloseJobs
    \/ WorkerStep
    \/ Collect
    \/ CollectorExit
    \/ CloseResults
    \/ FinishRun
    \/ Pause
    \/ NextRun
    \/ Summary

Spec == Init /\ [][Next]_vars

\* ------------------------------------------------- derived quantities
\* The request ids of a sequence of Results.
IdsOf(rs) == {rs[k].RequestID : k \in 1..Len(rs)}

\* The ids in a sequence of ids.
Range(q) == {q[k] : k \in 1..Len(q)}

\* A sequence of integers is strictly increasing.
Increasing(q) == \A a, b \in 1..Len(q) : a < b => q[a] < q[b]

\* Tasks a worker has received whose Result has not been sent yet.
InFlight == Range(recvOrder) \ IdsOf(emitted)

\* Every attempt made so far in the current run failed.
AllAttemptsFailed ==
    \A i \in 1..cfg.Requests : \A k \in 1..Len(tries[i]) : ~tries[i][k]

\* runLoad of the current run has returned to main.
RunReturned == mpc \in {"pause", "next"}

\* ------------------------------------------------------------- claims

\* C1: for every run k in 1..RepeatCount, the Success and Failed counts
\* printed for that run at its completion add up to Requests.
C1_RunCountsSumToRequests ==
    \A k \in 1..Len(report) :
        report[k].success + report[k].failed = cfg.Requests

\* C2: in every run exactly Requests Results are produced, and their
\* RequestIDs are exactly 1..Requests, each once: no id is emitted twice or
\* from outside 1..Requests at any time, and once every worker has finished
\* (results is closed) all of 1..Requests have been emitted.
C2_ExactlyRequestsResults ==
    /\ IdsOf(emitted) \subseteq 1..cfg.Requests
    /\ \A a, b \in 1..Len(emitted) :
           a # b => emitted[a].RequestID # emitted[b].RequestID
    /\ Len(emitted) <= cfg.Requests
    /\ resultsClosed =>
           /\ Len(emitted) = cfg.Requests
           /\ IdsOf(emitted) = 1..cfg.Requests

\* C2 witness: a second run with two workers ended, its two Results emitted
\* out of id order.
C2_Witness ==
    /\ resultsClosed
    /\ run = 2
    /\ cfg.Concurrency = 2
    /\ Len(emitted) = 2
    /\ emitted[1].RequestID = 2

\* C3: at every moment the tasks that were handed to a worker and have not
\* produced their Result number at most Concurrency, and at most Requests,
\* with and without pacing.
C3_InFlightBounded ==
    /\ Cardinality(InFlight) <= cfg.Concurrency
    /\ Cardinality(InFlight) <= cfg.Requests
    /\ Range(beginOrder) \subseteq Range(recvOrder)

\* C3 witness: one worker, its slot taken, while a further task waits in the
\* queue (non-burst pacing configured).
C3_Witness ==
    /\ cfg.Concurrency = 1
    /\ Paces
    /\ Cardinality(InFlight) = 1
    /\ jobs # <<>>
    /\ \E w \in WorkerIds : wk[w].pc = "attempt"

\* C4: every task makes at most MaxRetries+1 attempts, at least one before
\* its Result is sent, and every attempt but the last one failed (a further
\* attempt only follows a failure, none follows a success).
C4_AttemptsBounded ==
    \A i \in 1..cfg.Requests :
        /\ Len(tries[i]) <= cfg.MaxRetries + 1
        /\ \A k \in 1..(Len(tries[i]) - 1) : ~tries[i][k]
        /\ i \in IdsOf(emitted) => Len(tries[i]) >= 1

\* C4 witness: a task whose first attempt failed and whose retry succeeded
\* has sent its Result.
C4_Witness ==
    \E i \in IdsOf(emitted) : tries[i] = <<FALSE, TRUE>>

\* C5: the Error of an emitted Result is empty exactly when the task's last
\* executed attempt succeeded.
C5_ErrorReflectsLastAttempt ==
    \A k \in 1..Len(emitted) :
        LET t == tries[emitted[k].RequestID]
        IN /\ Len(t) >= 1
           /\ (emitted[k].Error = "") <=> t[Len(t)]

\* C5 witness: a Result with an empty Error was emitted for a task whose
\* earlier attempt failed, and one with an Error for a task that exhausted
\* its retries.
C5_Witness ==
    /\ \E k \in 1..Len(emitted) :
           /\ emitted[k].Error = ""
           /\ tries[emitted[k].RequestID] = <<FALSE, TRUE>>
    /\ \E k \in 1..Len(emitted) :
           /\ emitted[k].Error # ""
           /\ tries[emitted[k].RequestID] = <<FALSE, FALSE>>

\* C6: every Result, and every row written to the report, carries a
\* RetryCount equal to the number of attempts made beyond the first, within
\* 0..MaxRetries.
C6_ResultCarriesRetryCount ==
    /\ \A k \in 1..Len(emitted) :
           /\ "RetryCount" \in DOMAIN emitted[k]
           /\ emitted[k].RetryCount = Len(tries[emitted[k].RequestID]) - 1
           /\ emitted[k].RetryCount \in 0..cfg.MaxRetries
    /\ \A k \in 1..Len(csv) : Len(csv[k]) = 6

\* C7: when every attempt of every task of a run fails, the run still
\* returns, every task has made exactly MaxRetries+1 attempts, and the run's
\* completion line shows Failed = Requests and Success = 0.
C7_AllFailRunCounts ==
    (RunReturned /\ cfg.Requests > 0 /\ AllAttemptsFailed) =>
        /\ \A i \in 1..cfg.Requests : Len(tries[i]) = cfg.MaxRetries + 1
        /\ Len(report) >= 1
        /\ report[Len(report)].run = run
        /\ report[Len(report)].failed = cfg.Requests
        /\ report[Len(report)].success = 0

\* C8 (as claimed): tasks begin their attempt sequence in strictly
\* increasing RequestID order.
C8_BeginOrderIncreasing == Increasing(beginOrder)

\* C8 (amended): tasks are handed to the workers in strictly increasing
\* RequestID order 1, 2, ...; the order in which their attempt sequences
\* begin is increasing when there is a single worker.
C8_DispatchOrderIncreasing ==
    /\ recvOrder = [k \in 1..Len(recvOrder) |-> k]
    /\ cfg.Concurrency = 1 => Increasing(beginOrder)

\* C8 witness: tasks 1 and 2 were received in order, task 2 began its
\* attempts first and task 1 completed first.
C8_Witness ==
    /\ recvOrder = <<1, 2>>
    /\ beginOrder = <<2, 1>>
    /\ Len(emitted) = 2
    /\ emitted[1].RequestID = 1

\* C9: with Burst=false and Interval > 0 a pacing delay elapses between the
\* start of task i and the start of task i+1, for every i in 1..Requests-1.
C9_PacedStarts ==
    Paces =>
        \A i \in 1..(cfg.Requests - 1) :
            (i \in Range(beginOrder) /\ (i + 1) \in Range(beginOrder)) =>
                beginNaps[i + 1] > beginNaps[i]

\* C10: runs are strictly sequential: while run k is in progress every
\* Result of the runs before it is already in the report and their
\* completion lines are printed, rows are written in run order, and main
\* pauses once after each run but the last (RepeatCount-1 pauses in all).
C10_RunsSequential ==
    /\ \A a, b \in 1..Len(csv) : a < b => csv[a][1] <= csv[b][1]
    /\ \A k \in 1..Len(csv) : csv[k][1] <= run
    /\ (mpc = "wait" \/ mpc = "collect") =>
           /\ Cardinality({k \in 1..Len(csv) : csv[k][1] < run})
                  = (run - 1) * cfg.Requests
           /\ cfg.Requests > 0 => Len(report) = run - 1
           /\ pauses = run - 1
    /\ mpc = "call" => pauses = run - 1
    /\ mpc = "pause" => pauses = run - 1
    /\ mpc = "next" => pauses = (IF run < cfg.RepeatCount THEN run
                                 ELSE run - 1)
    /\ mpc \in {"summary", "done"} =>
           /\ pauses = cfg.RepeatCount - 1
           /\ Len(csv) = cfg.RepeatCount * cfg.Requests
    /\ mpc # "wait" =>
           /\ \A w \in WorkerIds : wk[w].pc \in {"none", "exit"}
           /\ jobs = <<>>
    /\ mpc \notin {"wait", "collect"} => (cpc # "run" /\ results = <<>>)

\* C10 witness: two runs of two requests are over, after exactly one pause.
C10_Witness ==
    /\ mpc = "done"
    /\ cfg.RepeatCount = 2
    /\ cfg.Requests = 2
    /\ pauses = 1
    /\ Len(csv) = 4

\* The rows of the report tagged with run k, in the order they were written.
RowsOf(rows, k) == SelectSeq(rows, LAMBDA r : r[1] = k)

\* The Duration column of a sequence of rows.
DurationsOf(rows) == [k \in 1..Len(rows) |-> rows[k][5]]

\* The value at 0-based rank j of a sample taken in ascending order, without
\* sorting it: fewer than j+1 entries lie below it, more than j at or below.
RankValue(sample, j) ==
    CHOOSE v \in Range(sample) :
        /\ Cardinality({i \in 1..Len(sample) : sample[i] < v}) <= j
        /\ Cardinality({i \in 1..Len(sample) : sample[i] <= v}) > j

\* C11: after run k the running totals cover exactly runs 1..k: cumulative
\* Success + Failed = k * Requests and the cumulative latency sample has
\* k * Requests entries; the final summary shows total requests
\* = Requests * RepeatCount = Succeeded + Failed.
C11_TotalsCoverRuns ==
    /\ RunReturned =>
           /\ totalSucceeded + totalFailed = run * cfg.Requests
           /\ Len(allLatencies) = run * cfg.Requests
    /\ final.printed =>
           /\ final.totalRequests = cfg.Requests * cfg.RepeatCount
           /\ final.totalRequests = final.succeeded + final.failed
           /\ Len(allLatencies) = final.totalRequests

\* C11 witness: the summary of two runs of two requests is printed, with
\* successes and failures among the four.
C11_Witness ==
    /\ final.printed
    /\ cfg.RepeatCount = 2
    /\ cfg.Requests = 2
    /\ final.succeeded = 3
    /\ final.failed = 1

\* C12: every Result of a run is written to the report exactly once: the
\* rows tagged with the current run are the Results consumed so far, in the
\* order they were consumed, and when the run returns they are exactly
\* Requests rows, one per RequestID in 1..Requests.
C12_EveryResultWrittenOnce ==
    LET mine == RowsOf(csv, run)
        taken == Len(emitted) - Len(results)
    IN /\ mpc \in {"wait", "collect", "pause", "next"} =>
              /\ Len(mine) = taken
              /\ \A k \in 1..Len(mine) :
                     mine[k] = <<run, emitted[k].RequestID, emitted[k].Status,
                                 emitted[k].Error, emitted[k].Duration>>
       /\ RunReturned =>
              /\ Len(mine) = cfg.Requests
              /\ {mine[k][2] : k \in 1..Len(mine)} = 1..cfg.Requests

\* C12 witness: the second run returned with its two rows written in
\* completion order 2, 1, one of them a success.
C12_Witness ==
    /\ RunReturned
    /\ run = 2
    /\ Len(RowsOf(csv, 2)) = 2
    /\ RowsOf(csv, 2)[1][2] = 2
    /\ RowsOf(csv, 2)[1][4] = ""
    /\ RowsOf(csv, 2)[2][4] # ""

\* C13: the p50/p90/p99 printed for run k are those of run k's own latency
\* samples, Requests of them, not of any earlier run's.
C13_RunPercentilesOwnSamples ==
    \A k \in 1..Len(report) :
        LET own == DurationsOf(RowsOf(csv, report[k].run))
            n == Len(own)
        IN /\ report[k].n = cfg.Requests
           /\ n > 0 =>
                  /\ report[k].p50 = RankValue(own, n \div 2)
                  /\ report[k].p90 = RankValue(own, (n * 9) \div 10)
                  /\ report[k].p99 = RankValue(own, (n * 99) \div 100)

\* C15: end-of-stream is signalled only after every task of the run has
\* produced its Result; the collector ends only with every Result of the run
\* consumed; the run's statistics are computed, and the run returns, only
\* after that.
C15_StatsAfterDrain ==
    /\ resultsClosed => Len(emitted) = cfg.Requests
    /\ (cpc = "done" /\ mpc \in {"collect", "pause", "next"}) =>
           /\ results = <<>>
           /\ Len(RowsOf(csv, run)) = cfg.Requests
    /\ RunReturned =>
           /\ cpc = "done"
           /\ resultsClosed
           /\ Len(allLatencies) = Len(csv)
           /\ cfg.Requests > 0 =>
                  /\ Len(report) >= 1
                  /\ report[Len(report)].run = run
                  /\ report[Len(report)].n = Len(csv)
                  /\ report[Len(report)].success + report[Len(report)].failed
                         = Len(csv)

\* C15 witness: the results channel is closed while two Results are still
\* unconsumed and the collector is running, so the statistics wait.
C15_Witness ==
    /\ mpc = "collect"
    /\ cpc = "run"
    /\ resultsClosed
    /\ Len(results) = 2

\* C18: the success/failure counters and the latency buffer are changed only
\* by a collector step (within a run) or by main's summary (across runs):
\* every worker step and every producer step leaves them unchanged.
C18_TotalsOwnedByCollector ==
    [][ /\ (<<totalFailed, totalSucceeded, allLatencies>>'
               # <<totalFailed, totalSucceeded, allLatencies>>)
               => (/\ wk' = wk
                   /\ <<nextJob, jobs, jobsClosed>>' = <<nextJob, jobs, jobsClosed>>
                   /\ emitted' = emitted
                   /\ \/ (cpc = "run" /\ results # <<>> /\ results' = Tail(results))
                      \/ (mpc = "summary" /\ mpc' = "done"))
        /\ (wk' # wk \/ <<nextJob, jobs, jobsClosed>>' # <<nextJob, jobs, jobsClosed>>)
               => (/\ mpc' = "wait" /\ mpc = "call")
                  \/ <<totalFailed, totalSucceeded, allLatencies>>'
                         = <<totalFailed, totalSucceeded, allLatencies>>
      ]_vars

\* C18 witness: workers have sent two Results, a failure among them, and the
\* counters and the latency buffer of the second run are still untouched.
C18_Witness ==
    /\ run = 2
    /\ Len(emitted) = 2
    /\ Len(results) = 2
    /\ \E k \in 1..2 : emitted[k].Error # ""
    /\ totalFailed + totalSucceeded = 2
    /\ Len(allLatencies) = 2

\* C20: the results channel is closed only after every worker has finished
\* and at most once per run (once closed it stays closed until the next run
\* makes a new channel), so no worker is left to send on the closed channel,
\* and the collector sees end-of-stream only with no task queued, pending or
\* attempting.
C20_CloseAfterWorkers ==
    /\ [](resultsClosed =>
              /\ \A w \in WorkerIds : wk[w].pc = "exit"
              /\ jobs = <<>>
              /\ jobsClosed
              /\ InFlight = {}
              /\ Range(recvOrder) = 1..cfg.Requests)
    /\ [](cpc = "done" => (resultsClosed /\ InFlight = {} /\ jobs = <<>>))
    /\ [][ /\ (~resultsClosed /\ resultsClosed') =>
                  (/\ mpc = "wait"
                   /\ \A w \in WorkerIds : wk[w].pc = "exit"
                   /\ results' = results)
           /\ (resultsClosed /\ ~resultsClosed') =>
                  (mpc = "call" /\ mpc' = "wait" /\ results' = <<>>)
           /\ resultsClosed => (emitted' = emitted \/ mpc = "call")
         ]_vars

\* C20 witness: the channel of the second run is closed with every worker
\* finished, the last Result (of task 1, sent after task 2's) not yet
\* consumed.
C20_Witness ==
    /\ run = 2
    /\ resultsClosed
    /\ cfg.Concurrency = 2
    /\ Len(emitted) = 2
    /\ emitted[2].RequestID = 1
    /\ Len(results) = 1
    /\ cpc = "run"

\* The steps of worker goroutine w.
WorkerOf(w) ==
    /\ w \in WorkerIds
    /\ \/ Recv(w)
       \/ WorkerExit(w)
       \/ Begin(w)
       \/ \E resp \in Responses, d \in 1..MaxAttemptMs : Attempt(w, resp, d)
       \/ Send(w)
       \/ Wake(w)

\* The Go scheduler runs every goroutine that can take a step, and every
\* network attempt and every sleep returns: weak fairness for main, the
\* producer, the collector and each worker.
Fairness ==
    /\ WF_vars(StartRun \/ CloseResults \/ FinishRun \/ Pause \/ NextRun
               \/ Summary)
    /\ WF_vars(Produce \/ CloseJobs)
    /\ WF_vars(Collect \/ CollectorExit)
    /\ \A w \in 1..MaxConcurrency : WF_vars(WorkerOf(w))

\* The configurations the fair behaviours are explored for: at most
\* MaxLiveTasks tasks over all runs.
LiveInit == Init /\ cfg.Requests * cfg.RepeatCount <= MaxLiveTasks

FairSpec == LiveInit /\ [][Next]_vars /\ Fairness

\* C19: with every attempt returning and fair scheduling, every run that
\* was started returns to main (no worker, producer or collector blocks
\* forever), for every Requests >= 0 and Concurrency >= 1, and the process
\* reaches its end.
C19_RunsTerminate ==
    /\ (mpc = "wait") ~> RunReturned
    /\ <>(mpc = "done")

\* C19 witness: both workers hold a finished Result to send while the
\* collector has not consumed anything of this run yet.
C19_Witness ==
    /\ cfg.Concurrency = 2
    /\ \A w \in WorkerIds : wk[w].pc = "send"
    /\ results = <<>>
    /\ Len(RowsOf(csv, run)) = 0
    /\ cpc = "run"

\* ------------------------------------------ the percentile computation
\* The sample of the spec's example: 10, 20, ..., 1000.
ExampleSample == [k \in 1..100 |-> 10 * k]

\* Latency samples (ms) the percentile computation is applied to.
Samples ==
    UNION {[1..n -> 1..MaxSampleMs] : n \in 0..MaxSampleLen}
        \cup {ExampleSample}

\* The state of a single run of Len(sample) successful requests whose
\* Results, with the latencies of `sample`, have all been collected: runLoad
\* is about to compute the run's percentiles, main the final ones.
PctInit ==
    \E sample \in Samples :
        LET n == Len(sample)
            rs == [k \in 1..n |-> [RequestID |-> k, Status |-> 200,
                                   Error |-> "", Duration |-> sample[k]]]
        IN /\ cfg = [Requests |-> n, Concurrency |-> 1, MaxRetries |-> 0,
                     RepeatCount |-> 1, Burst |-> TRUE, Interval |-> 0,
                     URLValid |-> TRUE]
           /\ run = 1
           /\ mpc = "collect"
           /\ pauses = 0
           /\ nextJob = n + 1
           /\ jobs = <<>>
           /\ jobsClosed = TRUE
           /\ results = <<>>
           /\ resultsClosed = TRUE
           /\ wk = [w \in {1} |-> [pc |-> "exit", reqID |-> n, attempt |-> 0,
                                   r |-> IF n > 0 THEN rs[n] ELSE ZeroResult,
                                   elapsed |-> IF n > 0 THEN sample[n] ELSE 0]]
           /\ cpc = "done"
           /\ totalFailed = 0
           /\ totalSucceeded = n
           /\ allLatencies = sample
           /\ csv = [k \in 1..n |-> <<1, k, 200, "", sample[k]>>]
           /\ report = <<>>
           /\ final = NoFinal
           /\ recvOrder = [k \in 1..n |-> k]
           /\ beginOrder = [k \in 1..n |-> k]
           /\ tries = [i \in 1..n |-> <<TRUE>>]
           /\ emitted = rs
           /\ naps = 0
           /\ beginNaps = [i \in 1..n |-> 0]
           /\ NoDispatch

PctNext == FinishRun \/ NextRun \/ Summary

SpecPct == PctInit /\ [][PctNext]_vars

\* The three percentiles printed in `line` are the values at the 0-based
\* ranks floor(N/2), floor(0.9 N), floor(0.99 N) of `sample` in ascending
\* order, ranks that lie within 0..N-1.
PercentilesOf(line, sample) ==
    LET n == Len(sample)
    IN /\ (n \div 2) \in 0..(n - 1)
       /\ ((n * 9) \div 10) \in 0..(n - 1)
       /\ ((n * 99) \div 100) \in 0..(n - 1)
       /\ line.p50 = RankValue(sample, n \div 2)
       /\ line.p90 = RankValue(sample, (n * 9) \div 10)
       /\ line.p99 = RankValue(sample, (n * 99) \div 100)

\* C14: for every non-empty sample of size N the p50/p90/p99 of the run line
\* and of the final summary are the elements at 0-based index floor(f * N)
\* (f = 0.5, 0.9, 0.99) of the sample sorted ascending, an index within
\* 0..N-1; for the sample 10, 20, ..., 1000 p50 is 510 and p90 is 910.
C14_NearestRankPercentiles ==
    LET sample == DurationsOf(csv)
    IN /\ \A k \in 1..Len(report) : PercentilesOf(report[k], sample)
       /\ (final.printed /\ Len(sample) > 0) => PercentilesOf(final, sample)
       /\ (mpc # "collect" /\ Len(sample) > 0) => Len(report) = 1
       /\ sample = ExampleSample =>
              /\ \A k \in 1..Len(report) :
                     report[k].p50 = 510 /\ report[k].p90 = 910
              /\ final.printed => (final.p50 = 510 /\ final.p90 = 910)

\* C14 witness: the percentiles of the example sample are printed, for the
\* run and in the summary.
C14_Witness ==
    /\ final.printed
    /\ DurationsOf(csv) = ExampleSample
    /\ final.p50 = 510
    /\ Len(report) = 1
    /\ report[1].p90 = 910
    /\ report[1].p99 = 1000

\* ------------------------------------------------------------------
\* The second load generator (src/main.go, lines 293-520).  Its Config has
\* no Concurrency and no MaxRetries; runLoad starts one goroutine per
\* request behind the semaphore sem, waits for a tick of a ticker of period
\* Interval/Requests after each start unless Burst, and drains the results
\* channel itself once the dispatch loop is over.

\* The cap of numGoroutines when not in burst mode.
MaxGoroutines == 1000

ConfigsB ==
    [Requests : 0..MaxRequests,
     RepeatCount : 1..MaxRepeatCount,
     Burst : BOOLEAN,
     Interval : {0, 10}]

\* numGoroutines, the capacity of sem.
NumGoroutines ==
    IF ~cfg.Burst /\ cfg.Requests > MaxGoroutines THEN MaxGoroutines
    ELSE cfg.Requests

\* The signs intervalPerReq can have:
\*   time.Duration(float64(Interval)/float64(Requests)*1e9).
\* With Requests = 0 the quotient is +Inf (Interval > 0) or NaN (Interval =
\* 0), and the conversion of such a float to int64 is implementation-
\* dependent: the minimal int64 on amd64; on arm64 the maximal int64 for
\* +Inf and 0 for NaN.
IntervalPerReqSigns ==
    IF cfg.Requests > 0
    THEN {IF cfg.Interval > 0 THEN 1 ELSE IF cfg.Interval = 0 THEN 0 ELSE -1}
    ELSE IF cfg.Interval > 0 THEN {-1, 1}
    ELSE {-1, 0}

\* The Result worker sends for request id when client.Get meets `resp`
\* after `duration` ms.
WorkerResult(id, resp, duration) ==
    IF resp.kind = "transport"
    THEN [RequestID |-> id, Status |-> 0, Error |-> TransportError,
          Duration |-> duration]
    ELSE [RequestID |-> id, Status |-> resp.status,
          Error |-> ErrStr(resp.status), Duration |-> duration]

IdleTask == [pc |-> "none", r |-> ZeroResult]

InitB ==
    /\ cfg \in ConfigsB
    /\ run = 1
    /\ mpc = "call"
    /\ pauses = 0
    /\ nextJob = 1
    /\ jobs = <<>>
    /\ jobsClosed = FALSE
    /\ results = <<>>
    /\ resultsClosed = FALSE
    /\ wk = <<>>
    /\ cpc = "none"
    /\ totalFailed = 0
    /\ totalSucceeded = 0
    /\ allLatencies = <<>>
    /\ csv = <<>>
    /\ report = <<>>
    /\ final = NoFinal
    /\ recvOrder = <<>>
    /\ beginOrder = <<>>
    /\ tries = <<>>
    /\ emitted = <<>>
    /\ naps = 0
    /\ beginNaps = <<>>
    /\ NoDispatch

\* main calls runLoad: the results channel and sem are made; unless Burst,
\* time.NewTicker(intervalPerReq), which panics on a non-positive interval.
StartRunB ==
    /\ mpc = "call"
    /\ run <= cfg.RepeatCount
    /\ results' = <<>>
    /\ resultsClosed' = FALSE
    /\ emitted' = <<>>
    /\ nextID' = 1
    /\ sem' = 0
    /\ task' = [id \in 1..cfg.Requests |-> IdleTask]
    /\ closer' = "none"
    /\ success' = 0
    /\ fail' = 0
    /\ latencies' = <<>>
    /\ batch' = <<>>
    /\ IF cfg.Burst
       THEN ticker' = "none" /\ mpc' = "dispatch"
       ELSE \E sign \in IntervalPerReqSigns :
                IF sign <= 0
                THEN ticker' = "none" /\ mpc' = "panic"
                ELSE ticker' = "armed" /\ mpc' = "dispatch"
    /\ UNCHANGED <<cfg, run, pauses, report, final, totalFailed, csv,
                   poolVars>>

\* The ticker's period elapses: a tick is put into ticker.C (capacity 1; a
\* tick that finds it full is dropped).
TickB ==
    /\ ticker = "armed"
    /\ ticker' = "tick"
    /\ UNCHANGED <<cfg, mainVars, results, resultsClosed, emitted,
                   totalFailed, csv, poolVars, nextID, sem, task, closer,
                   success, fail, latencies, batch>>

\* One pass of the dispatch loop up to its wait: wg.Add(1); sem <- {};
\* go send(i).
DispatchB ==
    /\ mpc = "dispatch"
    /\ nextID <= cfg.Requests
    /\ sem < NumGoroutines
    /\ sem' = sem + 1
    /\ task' = [task EXCEPT ![nextID].pc = "get"]
    /\ IF cfg.Burst
       THEN nextID' = nextID + 1 /\ mpc' = "dispatch"
       ELSE nextID' = nextID /\ mpc' = "tick"
    /\ UNCHANGED <<cfg, run, pauses, report, final, results, resultsClosed,
                   emitted, totalFailed, csv, poolVars, ticker, closer,
                   success, fail, latencies, batch>>

\* <-ticker.C, then i++.
AwaitTickB ==
    /\ mpc = "tick"
    /\ ticker = "tick"
    /\ ticker' = "armed"
    /\ nextID' = nextID + 1
    /\ mpc' = "dispatch"
    /\ UNCHANGED <<cfg, run, pauses, report, final, results, resultsClosed,
                   emitted, totalFailed, csv, poolVars, sem, task, closer,
                   success, fail, latencies, batch>>

\* The dispatch loop ends; the closer goroutine is started and main goes on
\* to range over results.
EndDispatchB ==
    /\ mpc = "dispatch"
    /\ nextID > cfg.Requests
    /\ closer' = "wait"
    /\ mpc' = "collect"
    /\ UNCHANGED <<cfg, run, pauses, report, final, results, resultsClosed,
                   emitted, totalFailed, csv, poolVars, nextID, sem, ticker,
                   task, success, fail, latencies, batch>>

\* worker: client.Get meets `resp` after d ms; the Result is built.
GetB(id, resp, d) ==
    /\ task[id].pc = "get"
    /\ task' = [task EXCEPT ![id] = [pc |-> "send",
                                     r |-> WorkerResult(id, resp, d)]]
    /\ UNCHANGED <<cfg, mainVars, results, resultsClosed, emitted,
                   totalFailed, csv, poolVars, nextID, sem, ticker, closer,
                   success, fail, latencies, batch>>

\* worker: results <- Result (the buffer holds cfg.Requests).
SendB(id) ==
    /\ task[id].pc = "send"
    /\ ~resultsClosed
    /\ Len(results) < cfg.Requests
    /\ results' = Append(results, task[id].r)
    /\ emitted' = Append(emitted, task[id].r)
    /\ task' = [task EXCEPT ![id].pc = "release"]
    /\ UNCHANGED <<cfg, mainVars, resultsClosed, totalFailed, csv, poolVars,
                   nextID, sem, ticker, closer, success, fail, latencies,
                   batch>>

\* send: <-sem, then the deferred wg.Done().
ReleaseB(id) ==
    /\ task[id].pc = "release"
    /\ sem > 0
    /\ sem' = sem - 1
    /\ task' = [task EXCEPT ![id].pc = "done"]
    /\ UNCHANGED <<cfg, mainVars, results, resultsClosed, emitted,
                   totalFailed, csv, poolVars, nextID, ticker, closer,
                   success, fail, latencies, batch>>

\* The closer goroutine: wg.Wait() returns; close(results).
CloserB ==
    /\ closer = "wait"
    /\ \A id \in 1..cfg.Requests : task[id].pc = "done"
    /\ resultsClosed' = TRUE
    /\ closer' = "done"
    /\ UNCHANGED <<cfg, mainVars, results, emitted, totalFailed, csv,
                   poolVars, nextID, sem, ticker, task, success, fail,
                   latencies, batch>>

\* for r := range results: one Result is counted, sampled and batched.
CollectB ==
    /\ mpc = "collect"
    /\ results # <<>>
    /\ LET r == Head(results)
       IN /\ fail' = IF r.Error # "" THEN fail + 1 ELSE fail
          /\ success' = IF r.Error # "" THEN success ELSE success + 1
          /\ latencies' = Append(latencies, r.Duration)
          /\ batch' = Append(batch, CsvRow(r))
    /\ results' = Tail(results)
    /\ UNCHANGED <<cfg, mainVars, resultsClosed, emitted, totalFailed, csv,
                   poolVars, nextID, sem, ticker, task, closer>>

\* The line runLoad prints for the run; the percentiles are 0 for an empty
\* sample.
RunLineB ==
    LET sorted == Sorted(latencies)
        n == Len(sorted)
    IN [run |-> run, requests |-> cfg.Requests,
        success |-> success, failed |-> fail,
        n |-> n,
        p50 |-> IF n > 0 THEN sorted[n \div 2 + 1] ELSE 0,
        p90 |-> IF n > 0 THEN Pct(sorted, 9, 10) ELSE 0,
        p99 |-> IF n > 0 THEN Pct(sorted, 99, 100) ELSE 0]

\* The range over results ends (closed and empty): writer.WriteAll(batch),
\* totalFailed += fail, the run's line is printed, the deferred
\* ticker.Stop() runs and runLoad returns to main's test run < RepeatCount.
FinishRunB ==
    /\ mpc = "collect"
    /\ results = <<>>
    /\ resultsClosed
    /\ csv' = csv \o batch
    /\ totalFailed' = totalFailed + fail
    /\ report' = Append(report, RunLineB)
    /\ ticker' = "none"
    /\ mpc' = IF PauseAfter(run) THEN "pause" ELSE "next"
    /\ UNCHANGED <<cfg, run, pauses, final, results, resultsClosed, emitted,
                   poolVars, nextID, sem, task, closer, success, fail,
                   latencies, batch>>

\* "All test runs completed. Total failed requests: N".
SummaryB ==
    /\ mpc = "summary"
    /\ final' = [printed |-> TRUE, failed |-> totalFailed]
    /\ mpc' = "done"
    /\ UNCHANGED <<cfg, run, pauses, report, results, resultsClosed, emitted,
                   totalFailed, csv, poolVars, dispatchVars>>

\* The send goroutines runLoad has made room for.
TaskStepB ==
    \E id \in DOMAIN task :
        \/ \E resp \in Responses, d \in 1..MaxAttemptMs : GetB(id, resp, d)
        \/ SendB(id)
        \/ ReleaseB(id)

NextB ==
    \/ StartRunB
    \/ TickB
    \/ DispatchB
    \/ AwaitTickB
    \/ EndDispatchB
    \/ TaskStepB
    \/ CloserB
    \/ CollectB
    \/ FinishRunB
    \/ Pause
    \/ NextRun
    \/ SummaryB

SpecB == InitB /\ [][NextB]_vars

\* C16: with Burst = false and Interval = 0 (and Requests > 0) runLoad does
\* not fail: the process never panics.
C16_ZeroIntervalRunCompletes ==
    (~cfg.Burst /\ cfg.Interval = 0 /\ cfg.Requests > 0) => mpc # "panic"

\* C17: with Requests = 0, in burst mode or not, runLoad does not fail: the
\* process never panics.
C17_ZeroRequestsRunCompletes ==
    cfg.Requests = 0 => mpc # "panic"

====
